---- MODULE Spec2Model ----
(***************************************************************************)
(* Model of isaaclab/envs/mdp/commands/test_rotation.py: the constrained   *)
(* quaternion samplers, the range resampling of test_dict and the root     *)
(* state reset built from them.                                            *)
(*                                                                         *)
(* Tensor entries are exact real numbers of the form (a + b*sqrt(r))/d,    *)
(* or NaN.  The random draws of torch.rand / torch.randn are inputs.       *)
(***************************************************************************)
EXTENDS Integers, Sequences, FiniteSets, TLC

\* largest batch (rows of center_q, num_samples, len(env_ids), environments)
MaxN == 2
\* torch.rand draws are taken from the grid {0, 1/UDen, ..., (UDen-1)/UDen}
UDen == 2
\* the reset events of one run
MaxEvents == 2

(***************************************************************************)
(* Tensor entries: exact arithmetic with NaN.                              *)
(***************************************************************************)
Abs(n) == IF n < 0 THEN -n ELSE n

RECURSIVE Gcd(_, _)
Gcd(m, n) == IF n = 0 THEN m ELSE Gcd(n, m % n)

\* not-a-number: the result of 0/0, and of any operation on a NaN
NaN == [a |-> 0, b |-> 0, r |-> 0, d |-> 0]

IsNaN(x) == x.d = 0

\* the entry (a + b*sqrt(r))/d in lowest terms, d # 0, r square-free
Num(a, b, r, d) ==
    LET b1 == IF r = 0 THEN 0 ELSE b
        r1 == IF b1 = 0 THEN 0 ELSE r
        g  == Gcd(Gcd(Abs(a), Abs(b1)), Abs(d))
        s  == IF d < 0 THEN -1 ELSE 1
    IN  [a |-> (s * a) \div g, b |-> (s * b1) \div g, r |-> r1, d |-> Abs(d) \div g]

Rat(n, d) == Num(n, 0, 0, d)

Zero == Rat(0, 1)

One == Rat(1, 1)

\* the radicand two entries of one row share
Rad(x, y) == IF x.b # 0 THEN x.r ELSE y.r

Add(x, y) ==
    IF IsNaN(x) \/ IsNaN(y) THEN NaN
    ELSE Num(x.a * y.d + y.a * x.d, x.b * y.d + y.b * x.d, Rad(x, y), x.d * y.d)

Neg(x) == IF IsNaN(x) THEN NaN ELSE Num(-x.a, -x.b, x.r, x.d)

Sub(x, y) == Add(x, Neg(y))

Mul(x, y) ==
    IF IsNaN(x) \/ IsNaN(y) THEN NaN
    ELSE Num(x.a * y.a + x.b * y.b * Rad(x, y), x.a * y.b + x.b * y.a, Rad(x, y),
             x.d * y.d)

\* x / y for a rational y; 0/0 is NaN.  The only division of the program,
\* v / v.norm, divides by zero only when every component of v is zero.
Div(x, y) ==
    IF IsNaN(x) \/ IsNaN(y) \/ y.a = 0 THEN NaN
    ELSE Num(x.a * y.d, x.b * y.d, x.r, x.d * y.a)

SignInt(n) == IF n > 0 THEN 1 ELSE IF n < 0 THEN -1 ELSE 0

\* the sign of a number that is not NaN
Sign(x) ==
    IF x.b = 0 THEN SignInt(x.a)
    ELSE IF x.a = 0 THEN SignInt(x.b)
    ELSE IF SignInt(x.a) = SignInt(x.b) THEN SignInt(x.a)
    ELSE IF x.a > 0 THEN SignInt(x.a * x.a - x.b * x.b * x.r)
    ELSE SignInt(x.b * x.b * x.r - x.a * x.a)

\* x <= y; false when either is NaN, as every IEEE comparison with NaN
Leq(x, y) == ~IsNaN(x) /\ ~IsNaN(y) /\ Sign(Sub(y, x)) >= 0

AbsNum(x) == IF IsNaN(x) THEN NaN ELSE IF Sign(x) < 0 THEN Neg(x) ELSE x

\* the largest s with s*s dividing m (m > 0)
RECURSIVE SqPart(_, _, _)
SqPart(m, s, best) ==
    IF s * s > m THEN best
    ELSE SqPart(m, s + 1, IF m % (s * s) = 0 THEN s ELSE best)

\* torch.sqrt of a rational entry: NaN for a negative or NaN argument
Sqrt(x) ==
    IF IsNaN(x) \/ Sign(x) < 0 THEN NaN
    ELSE IF x.a = 0 THEN Zero
    ELSE LET m == x.a * x.d
             s == SqPart(m, 1, 1)
             t == m \div (s * s)
         IN  IF t = 1 THEN Rat(s, x.d) ELSE Num(0, s, t, x.d)

\* torch.cos(max_angle / 2.0) at the angles whose half-angle cosine is rational
CosHalf(max_angle) ==
    CASE max_angle = "0"     -> Rat(1, 1)
      [] max_angle = "2pi/3" -> Rat(1, 2)
      [] max_angle = "pi"    -> Rat(0, 1)
      [] max_angle = "4pi/3" -> Rat(-1, 2)
      [] max_angle = "2pi"   -> Rat(-1, 1)

(***************************************************************************)
(* The samplers.                                                           *)
(***************************************************************************)
\* cos_phi = (1.0 - u) + u * cos_theta, elementwise
CosPhiWrongSign(u, cos_theta) ==
    [i \in DOMAIN u |-> Sub(Sub(One, u[i]), Mul(u[i], cos_theta))]

CosPhi(u, cos_theta) ==
    [i \in DOMAIN u |-> Add(Sub(One, u[i]), Mul(u[i], cos_theta))]

\* sin_phi = torch.sqrt(1.0 - cos_phi**2), elementwise
SinPhi(cos_phi) ==
    [i \in DOMAIN cos_phi |-> Sqrt(Sub(One, Mul(cos_phi[i], cos_phi[i])))]

\* v.norm(dim=-1, keepdim=True): one norm per row
RowNorm(v) ==
    [i \in DOMAIN v |->
        Sqrt(Add(Add(Mul(v[i][1], v[i][1]), Mul(v[i][2], v[i][2])),
                 Mul(v[i][3], v[i][3])))]

\* a norm that is not taken row by row: every row gets the norm of the first
FirstRowNorm(v) ==
    LET n == RowNorm(v) IN [i \in DOMAIN v |-> n[1]]

\* v.norm(dim=-1, keepdim=True) as line 30 and line 92 take it
VNorm(v) == RowNorm(v)

\* v = v / v.norm(dim=-1, keepdim=True)
Normalize(v) ==
    LET n == VNorm(v)
    IN  [i \in DOMAIN v |-> [c \in 1..3 |-> Div(v[i][c], n[i])]]

\* local_quat = cat([cos_phi, sin_phi * v], dim=-1), rows (w, x, y, z)
LocalQuat(cos_phi, sin_phi, v) ==
    [i \in DOMAIN v |->
        <<cos_phi[i], Mul(sin_phi[i], v[i][1]), Mul(sin_phi[i], v[i][2]),
          Mul(sin_phi[i], v[i][3])>>]

\* one row of math_utils.quat_mul: the Hamilton product in (w, x, y, z) order
QuatMulRow(p, q) ==
    << Sub(Sub(Sub(Mul(p[1], q[1]), Mul(p[2], q[2])), Mul(p[3], q[3])), Mul(p[4], q[4])),
       Sub(Add(Add(Mul(p[1], q[2]), Mul(p[2], q[1])), Mul(p[3], q[4])), Mul(p[4], q[3])),
       Add(Add(Sub(Mul(p[1], q[3]), Mul(p[2], q[4])), Mul(p[3], q[1])), Mul(p[4], q[2])),
       Add(Sub(Add(Mul(p[1], q[4]), Mul(p[2], q[3])), Mul(p[3], q[2])), Mul(p[4], q[1])) >>

\* math_utils.quat_mul(q1, q2) on two batches of the same length
quat_mul(q1, q2) == [i \in DOMAIN q1 |-> QuatMulRow(q1[i], q2[i])]

\* sample_quat_within_angle(center_q, max_angle) with the draws u (torch.rand)
\* and v (torch.randn) of the call
sample_quat_within_angle(center_q, max_angle, u, v) ==
    LET cos_phi    == CosPhi(u, CosHalf(max_angle))
        sin_phi    == SinPhi(cos_phi)
        vhat       == Normalize(v)
        local_quat == LocalQuat(cos_phi, sin_phi, vhat)
    IN  quat_mul(center_q, local_quat)

\* center_q.expand(num_samples, 4) of a single quaternion
Expand(center_q, num_samples) == [i \in 1..num_samples |-> center_q]

\* sample_quat_within_rot_angle(center_q, max_angle, num_samples) with its draws
sample_quat_within_rot_angle(center_q, max_angle, num_samples, u, v) ==
    LET cos_theta  == CosHalf(max_angle)
        cos_phi    == CosPhi(u, cos_theta)
        sin_phi    == SinPhi(cos_phi)
        vhat       == Normalize(v)
        local_quat == LocalQuat(cos_phi, sin_phi, vhat)
    IN  quat_mul(Expand(center_q, num_samples), local_quat)

(***************************************************************************)
(* Range resampling.                                                       *)
(***************************************************************************)
\* pose_range.get(key, default)
Get(range, key, default) == IF key \in DOMAIN range THEN range[key] ELSE default

\* a lookup that falls back to the unit interval instead of (0.0, 0.0)
RangeListUnitDefault(range, keys) ==
    [i \in DOMAIN keys |-> Get(range, keys[i], <<Zero, One>>)]

\* [range.get(key, (0.0, 0.0)) for key in keys]
RangeList(range, keys) ==
    [i \in DOMAIN keys |-> Get(range, keys[i], <<Zero, Zero>>)]

\* ranges[:, c]
Column(ranges, c) == [i \in DOMAIN ranges |-> ranges[i][c]]

\* whether a bound vector of length len broadcasts against k columns
Broadcastable(len, k) == len = k \/ len = 1

\* math_utils.sample_uniform(lower, upper, (n, k)) with the torch.rand draws
\* rand of the call: rand * (upper - lower) + lower, column by column
sample_uniform(lower, upper, n, k, rand) ==
    LET at(b, c) == IF Len(b) = 1 THEN b[1] ELSE b[c]
    IN  [i \in 1..n |->
            [c \in 1..k |->
                Add(Mul(rand[i][c], Sub(at(upper, c), at(lower, c))), at(lower, c))]]

(***************************************************************************)
(* Inputs.                                                                 *)
(***************************************************************************)
Q(w, x, y, z, d) == <<Rat(w, d), Rat(x, d), Rat(y, d), Rat(z, d)>>

\* unit reference quaternions
CenterSeq == << Q(1, 0, 0, 0, 1), Q(1, 1, 1, 1, 2), Q(0, 3, 0, -4, 5) >>

CenterQs == {CenterSeq[i] : i \in DOMAIN CenterSeq}

Angles == {"0", "2pi/3", "pi", "4pi/3", "2pi"}

\* torch.rand: uniform draws in [0, 1)
UGrid == {Rat(k, UDen) : k \in 0..(UDen - 1)}

\* torch.randn: draws of a 3-vector, the zero vector among them
VSeq == << <<Rat(1, 1), Rat(0, 1), Rat(0, 1)>>,
           <<Rat(2, 1), Rat(-1, 1), Rat(2, 1)>>,
           <<Rat(0, 1), Rat(0, 1), Rat(0, 1)>> >>

VDraws == {VSeq[i] : i \in DOMAIN VSeq}

ZeroVec == VSeq[3]

\* a torch.rand matrix of n rows and k columns, row i starting at grid point s[i]
RandMatrix(s, n, k) == [i \in 1..n |-> [c \in 1..k |-> Rat((s[i] + c) % UDen, UDen)]]

R(lo, hi, d) == <<Rat(lo, d), Rat(hi, d)>>

\* the pose_range of the script, and mappings with missing and extra keys
PoseRanges ==
    { [k \in {"x", "y", "z", "max_radian"} |->
          CASE k = "x" -> R(-1, 1, 1) [] k = "y" -> R(-2, 2, 1)
            [] k = "z" -> R(-3, 3, 1) [] k = "max_radian" -> R(-1, 1, 10)],
      [k \in {"x", "max_radian"} |-> IF k = "x" THEN R(1, 3, 2) ELSE R(2, 2, 1)],
      [k \in {"y", "yaw"} |-> IF k = "y" THEN R(-1, 0, 1) ELSE R(2, 5, 1)],
      [k \in {"z", "roll", "pitch"} |-> IF k = "z" THEN R(0, 4, 1) ELSE R(-1, 1, 3)],
      [k \in {} |-> R(0, 0, 1)] }

PositionRanges ==
    { [k \in {"x", "y", "z"} |->
          CASE k = "x" -> R(-1, 1, 2) [] k = "y" -> R(-1, 1, 2) [] k = "z" -> R(0, 1, 1)],
      [k \in {"x"} |-> R(-2, 2, 1)] }

VelocityRanges ==
    { [k \in {"x", "y", "z", "roll", "pitch", "yaw"} |->
          IF k \in {"x", "y", "z"} THEN R(-1, 1, 1) ELSE R(-1, 1, 2)],
      [k \in {"yaw"} |-> R(1, 2, 1)] }

Envs == 1..MaxN

\* index tensors: the non-empty strictly increasing sequences of environment ids
EnvIdSets ==
    {s \in UNION {[1..n -> Envs] : n \in 1..MaxN} :
        \A i \in 1..(Len(s) - 1) : s[i] < s[i + 1]}

\* asset.data.default_root_state: rows of position (3), orientation (4),
\* linear and angular velocity (6)
DefaultRootState ==
    [e \in Envs |->
        <<Rat(e, 1), Rat(0, 1), Rat(1, 2)>>
        \o CenterSeq[((e - 1) % Len(CenterSeq)) + 1]
        \o <<Rat(1, 1), Rat(0, 1), Rat(-e, 1), Rat(0, 1), Rat(1, 4), Rat(0, 1)>>]

\* env.scene.env_origins
EnvOrigins == [e \in Envs |-> <<Rat(4 * e, 1), Rat(-4, 1), Rat(0, 1)>>]

Rows(n, S) == [1..n -> S]

RotAngleArgs ==
    UNION { [fn : {"rot_angle"}, center_q : CenterQs, max_angle : Angles,
             num_samples : {n}, u : Rows(n, UGrid), v : Rows(n, VDraws)]
            : n \in 1..MaxN }

\* the references of a batch
BatchQs == {CenterSeq[2], CenterSeq[3]}

WithinAngleArgs ==
    UNION { [fn : {"within_angle"}, center_q : Rows(n, BatchQs), max_angle : Angles,
             u : Rows(n, UGrid), v : Rows(n, VDraws)]
            : n \in 1..MaxN }

TestDictArgs ==
    UNION { [fn : {"test_dict"}, env_ids : {[i \in 1..n |-> i - 1]},
             pose_range : PoseRanges, rand : {RandMatrix(s, n, 4) : s \in Rows(n, 0..(UDen - 1))}]
            : n \in 0..(MaxN + 1) }

\* one reset event: the draws of a call follow from one grid point and one
\* direction per call, shifted row by row
ResetArgs ==
    { [fn |-> "reset", env_ids |-> ids, position_range |-> pr, velocity_range |-> vr,
       max_radian |-> th,
       u |-> [i \in 1..Len(ids) |-> Rat((s + i) % UDen, UDen)],
       v |-> [i \in 1..Len(ids) |-> VSeq[((d + i) % Len(VSeq)) + 1]],
       rand_pos |-> RandMatrix([i \in 1..Len(ids) |-> s + i], Len(ids), 3),
       rand_vel |-> RandMatrix([i \in 1..Len(ids) |-> s], Len(ids), 6)]
      : ids \in EnvIdSets, pr \in PositionRanges, vr \in VelocityRanges,
        th \in {"0", "2pi/3"}, s \in 0..(UDen - 1), d \in {0, 1} }

(***************************************************************************)
(* State.                                                                  *)
(***************************************************************************)
VARIABLES
    pc,                  \* "start": a call is about to run; "done": it has ended
    args,                \* the arguments and random draws of the call
    frame,               \* what the call computed, and how it ended
    default_root_state,  \* asset.data.default_root_state
    env_origins,         \* env.scene.env_origins
    sim_writes,          \* the writes committed to the simulation, in order
    events               \* the reset events triggered so far

vars == <<pc, args, frame, default_root_state, env_origins, sim_writes, events>>

NoFrame ==
    [status |-> "none", rotated_quat |-> <<>>, range_list |-> <<>>,
     rand_samples |-> <<>>]

Init ==
    /\ pc = "start"
    /\ args \in RotAngleArgs \cup WithinAngleArgs \cup TestDictArgs \cup ResetArgs
    /\ frame = NoFrame
    /\ default_root_state = DefaultRootState
    /\ env_origins = EnvOrigins
    /\ sim_writes = <<>>
    /\ events = IF args.fn = "reset" THEN 1 ELSE 0

\* rotated_q = sample_quat_within_rot_angle(center_q[0,:], max_angle, num_samples)
SampleQuatWithinRotAngle ==
    /\ pc = "start"
    /\ args.fn = "rot_angle"
    /\ frame' = [NoFrame EXCEPT
                    !.status = "returned",
                    !.rotated_quat =
                        sample_quat_within_rot_angle(args.center_q, args.max_angle,
                                                     args.num_samples, args.u, args.v)]
    /\ pc' = "done"
    /\ UNCHANGED <<args, default_root_state, env_origins, sim_writes, events>>

\* a call of sample_quat_within_angle on a batch of references
SampleQuatWithinAngle ==
    /\ pc = "start"
    /\ args.fn = "within_angle"
    /\ frame' = [NoFrame EXCEPT
                    !.status = "returned",
                    !.rotated_quat =
                        sample_quat_within_angle(args.center_q, args.max_angle,
                                                 args.u, args.v)]
    /\ pc' = "done"
    /\ UNCHANGED <<args, default_root_state, env_origins, sim_writes, events>>

\* test_dict(env_ids, pose_range)
TestDict ==
    /\ pc = "start"
    /\ args.fn = "test_dict"
    /\ LET range_list == RangeList(args.pose_range, <<"x", "y", "z", "max_radian">>)
           rand_samples == sample_uniform(Column(range_list, 1), Column(range_list, 2),
                                          Len(args.env_ids), 4, args.rand)
       IN  frame' = [NoFrame EXCEPT
                        !.status = "returned",
                        !.range_list = range_list,
                        !.rand_samples = rand_samples]
    /\ pc' = "done"
    /\ UNCHANGED <<args, default_root_state, env_origins, sim_writes, events>>

\* asset.data.default_root_state had root_states been a view of it and line 120
\* stored the sampled orientations into columns 3:7 of that view
StoredInPlace(default, env_ids, orientations) ==
    [e \in DOMAIN default |->
        IF \E i \in DOMAIN env_ids : env_ids[i] = e
        THEN LET i == CHOOSE j \in DOMAIN env_ids : env_ids[j] = e
             IN  SubSeq(default[e], 1, 3) \o orientations[i] \o SubSeq(default[e], 8, 13)
        ELSE default[e]]

\* asset.data.default_root_state after line 112 and what follows it:
\* root_states is a clone, and nothing computed from it is stored back
DefaultAfterReset(default, env_ids, orientations) == default

\* elementwise sum of two rows
AddRow(x, y) == [c \in DOMAIN x |-> Add(x[c], y[c])]

\* reset_root_state_clamped_angular_distance(env, env_ids, position_range,
\* velocity_range, max_radian)
ResetRootState ==
    /\ pc = "start"
    /\ args.fn = "reset"
    /\ LET env_ids == args.env_ids
           n == Len(env_ids)
           root_states == [i \in 1..n |-> default_root_state[env_ids[i]]]
           xyz_pos_ranges == RangeList(args.position_range, <<"x", "y", "z">>)
           xyz_vel_ranges ==
               RangeList(args.velocity_range, <<"x", "y", "z", "roll", "pitch", "yaw">>)
           xyz_pos_rand_samples ==
               sample_uniform(Column(xyz_pos_ranges, 1), Column(xyz_pos_ranges, 2),
                              n, 3, args.rand_pos)
           orientations ==
               sample_quat_within_angle([i \in 1..n |-> SubSeq(root_states[i], 4, 7)],
                                        args.max_radian, args.u, args.v)
           \* line 122 passes the three position bounds with the size (n, 6)
           vel_lower == Column(xyz_pos_ranges, 1)
           vel_upper == Column(xyz_pos_ranges, 2)
           xyzrpy_vel_rand_samples ==
               sample_uniform(vel_lower, vel_upper, n, 6, args.rand_vel)
           positions ==
               [i \in 1..n |->
                   AddRow(AddRow(SubSeq(root_states[i], 1, 3), env_origins[env_ids[i]]),
                          xyz_pos_rand_samples[i])]
           velocities ==
               [i \in 1..n |->
                   AddRow(SubSeq(root_states[i], 8, 13), xyzrpy_vel_rand_samples[i])]
           pose == [i \in 1..n |-> positions[i] \o orientations[i]]
           computed == [NoFrame EXCEPT
                           !.rotated_quat = orientations,
                           !.range_list = xyz_pos_ranges,
                           !.rand_samples = xyz_pos_rand_samples]
       IN  IF ~Broadcastable(Len(vel_lower), 6)
           THEN \* rand(n, 6) * (upper - lower) raises: the call ends at line 122
                /\ frame' = [computed EXCEPT !.status = "raised"]
                /\ default_root_state' =
                      DefaultAfterReset(default_root_state, env_ids, orientations)
                /\ UNCHANGED sim_writes
           ELSE /\ frame' = [computed EXCEPT !.status = "returned"]
                /\ sim_writes' = sim_writes \o
                      << [kind |-> "pose", env_ids |-> env_ids, data |-> pose],
                         [kind |-> "velocity", env_ids |-> env_ids, data |-> velocities] >>
                /\ default_root_state' =
                      DefaultAfterReset(default_root_state, env_ids, orientations)
    /\ pc' = "done"
    /\ UNCHANGED <<args, env_origins, events>>

\* the event manager triggers the next reset; the locals of the last call are gone
NextEvent ==
    /\ pc = "done"
    /\ args.fn = "reset"
    /\ events < MaxEvents
    /\ args' \in ResetArgs
    /\ events' = events + 1
    /\ pc' = "start"
    /\ frame' = NoFrame
    /\ UNCHANGED <<default_root_state, env_origins, sim_writes>>

Next ==
    \/ SampleQuatWithinRotAngle
    \/ SampleQuatWithinAngle
    \/ TestDict
    \/ ResetRootState
    \/ NextEvent

Spec == Init /\ [][Next]_vars

(***************************************************************************)
(* Properties.                                                             *)
(***************************************************************************)
Dot(p, q) ==
    Add(Add(Add(Mul(p[1], q[1]), Mul(p[2], q[2])), Mul(p[3], q[3])), Mul(p[4], q[4]))

HasNaN(q) == \E c \in DOMAIN q : IsNaN(q[c])

\* a sampler has returned
SamplerDone == pc = "done" /\ args.fn \in {"rot_angle", "within_angle"}

ResetDone == pc = "done" /\ args.fn = "reset"

\* the reference of output row i
CenterOf(i) == IF args.fn = "rot_angle" THEN args.center_q ELSE args.center_q[i]

\* the local quaternions of the call, rebuilt from its draws
LocalOf ==
    LET cos_phi == CosPhi(args.u, CosHalf(args.max_angle))
    IN  LocalQuat(cos_phi, SinPhi(cos_phi), Normalize(args.v))

SampleRows == DOMAIN frame.rotated_quat

\* 2*arccos(|dot(out, q)|) <= max_angle: |dot| >= cos(max_angle/2) up to pi,
\* and beyond pi any |dot| in [0, 1], whose arccos is at most pi/2
WithinAngle(out, q, max_angle) ==
    LET d == AbsNum(Dot(out, q))
    IN  IF Sign(CosHalf(max_angle)) >= 0
        THEN Leq(CosHalf(max_angle), d)
        ELSE Leq(d, One)

\* C1: every quaternion either sampler returns for a non-zero direction draw
\* has angular distance at most max_angle to its reference
C1_WithinMaxAngle ==
    SamplerDone =>
        \A i \in SampleRows :
            args.v[i] # ZeroVec =>
                WithinAngle(frame.rotated_quat[i], CenterOf(i), args.max_angle)

\* C1 witness: a call for two samples whose second row was rotated by an irrational
\* sine, strictly inside a bound of 120 degrees
C1_Witness ==
    /\ SamplerDone
    /\ args.max_angle = "2pi/3"
    /\ Len(frame.rotated_quat) = 2
    /\ args.v[2] # ZeroVec
    /\ args.u[2] # Zero
    /\ frame.rotated_quat[2] # CenterOf(2)
    /\ \E c \in 1..4 : frame.rotated_quat[2][c].b # 0

\* C5: with max_angle = 0 the samplers return the reference unchanged, for
\* every draw of u and every direction draw
C5_ZeroAngleReturnsReference ==
    (SamplerDone /\ args.max_angle = "0") =>
        \A i \in SampleRows :
            /\ LocalOf[i] = Q(1, 0, 0, 0, 1)
            /\ frame.rotated_quat[i] = CenterOf(i)

\* C5 holds for the draws whose direction is not the zero vector
ZeroAngleReturnsReferenceUnlessZeroDraw ==
    (SamplerDone /\ args.max_angle = "0") =>
        \A i \in SampleRows :
            args.v[i] # ZeroVec =>
                /\ LocalOf[i] = Q(1, 0, 0, 0, 1)
                /\ frame.rotated_quat[i] = CenterOf(i)

\* C6: every local quaternion and every quaternion a sampler returns has
\* norm 1, for every bound and every draw
C6_UnitNorm ==
    SamplerDone =>
        \A i \in SampleRows :
            /\ Dot(LocalOf[i], LocalOf[i]) = One
            /\ Dot(frame.rotated_quat[i], frame.rotated_quat[i]) = One

\* C6 holds for the draws whose direction is not the zero vector
UnitNormUnlessZeroDraw ==
    SamplerDone =>
        \A i \in SampleRows :
            args.v[i] # ZeroVec =>
                /\ Dot(LocalOf[i], LocalOf[i]) = One
                /\ Dot(frame.rotated_quat[i], frame.rotated_quat[i]) = One

\* C9: a zero-length direction draw still gives a unit quaternion without
\* NaN, and the reference itself when max_angle = 0
C9_ZeroDirectionGuarded ==
    SamplerDone =>
        \A i \in SampleRows :
            args.v[i] = ZeroVec =>
                /\ ~HasNaN(frame.rotated_quat[i])
                /\ Dot(frame.rotated_quat[i], frame.rotated_quat[i]) = One
                /\ args.max_angle = "0" => frame.rotated_quat[i] = CenterOf(i)

\* C8: sample_quat_within_angle returns one quaternion per reference row, and
\* row i of the output is what the sampler returns for the batch made of
\* reference row i and the draws of row i alone, whatever the other rows hold
C8_RowIndependent ==
    (pc = "done" /\ args.fn = "within_angle") =>
        /\ Len(frame.rotated_quat) = Len(args.center_q)
        /\ \A i \in SampleRows :
              frame.rotated_quat[i] =
                  sample_quat_within_angle(<<args.center_q[i]>>, args.max_angle,
                                           <<args.u[i]>>, <<args.v[i]>>)[1]

\* C8 witness: a batch of two rows with different references, draws and outputs
C8_Witness ==
    /\ pc = "done"
    /\ args.fn = "within_angle"
    /\ Len(frame.rotated_quat) = 2
    /\ args.center_q[1] # args.center_q[2]
    /\ args.u[1] # args.u[2]
    /\ args.v[1] # args.v[2]
    /\ args.v[1] # ZeroVec
    /\ args.v[2] # ZeroVec
    /\ frame.rotated_quat[1] # frame.rotated_quat[2]

\* the keys a call resamples, and the mapping it reads them from
RangeKeys ==
    IF args.fn = "test_dict" THEN <<"x", "y", "z", "max_radian">> ELSE <<"x", "y", "z">>

RangeMap == IF args.fn = "test_dict" THEN args.pose_range ELSE args.position_range

\* C4: test_dict and the position jitter of the reset build their range list
\* whatever keys are missing; the samples have one row per environment id and
\* one column per requested key, within [low, high] for a key of the mapping
\* and exactly 0 for a key that is not in it
C4_RangeResampling ==
    (pc = "done" /\ args.fn \in {"test_dict", "reset"}) =>
        /\ args.fn = "test_dict" => frame.status = "returned"
        /\ Len(frame.range_list) = Len(RangeKeys)
        /\ Len(frame.rand_samples) = Len(args.env_ids)
        /\ \A i \in DOMAIN frame.rand_samples :
              /\ Len(frame.rand_samples[i]) = Len(RangeKeys)
              /\ \A c \in DOMAIN RangeKeys :
                    IF RangeKeys[c] \in DOMAIN RangeMap
                    THEN /\ Leq(RangeMap[RangeKeys[c]][1], frame.rand_samples[i][c])
                         /\ Leq(frame.rand_samples[i][c], RangeMap[RangeKeys[c]][2])
                    ELSE frame.rand_samples[i][c] = Zero

\* C4 witness: test_dict on two ids with "y" given and "x" missing, and a
\* sample strictly inside the interval of "y"
C4_Witness ==
    /\ pc = "done"
    /\ args.fn = "test_dict"
    /\ Len(args.env_ids) = 2
    /\ "y" \in DOMAIN args.pose_range
    /\ "x" \notin DOMAIN args.pose_range
    /\ \E i \in DOMAIN frame.rand_samples :
          /\ frame.rand_samples[i][2] # args.pose_range["y"][1]
          /\ frame.rand_samples[i][2] # args.pose_range["y"][2]
          /\ frame.rand_samples[i][1] = Zero

\* the last two writes of the sink
LastWrites == SubSeq(sim_writes, Len(sim_writes) - 1, Len(sim_writes))

\* C2: every reset call completes by committing one pose batch and then one
\* velocity batch, both addressed to exactly the supplied env_ids, one row each
C2_ResetCommitsPoseThenVelocity ==
    ResetDone =>
        /\ frame.status = "returned"
        /\ Len(sim_writes) = 2 * events
        /\ LastWrites[1].kind = "pose"
        /\ LastWrites[2].kind = "velocity"
        /\ \A k \in 1..2 :
              /\ LastWrites[k].env_ids = args.env_ids
              /\ Len(LastWrites[k].data) = Len(args.env_ids)

VelKeys == <<"x", "y", "z", "roll", "pitch", "yaw">>

\* whether x lies in the interval the mapping gives for the key, (0, 0) if none
InRange(x, range, key) ==
    LET lh == Get(range, key, <<Zero, Zero>>)
    IN  Leq(lh[1], x) /\ Leq(x, lh[2])

\* C3: the velocity a reset writes for each instance is its default root
\* velocity plus a jitter whose column of each key lies in the interval
\* velocity_range gives for it, and is 0 for a key velocity_range lacks
C3_VelocityJitterFromVelocityRange ==
    ResetDone =>
        /\ Len(sim_writes) >= 1
        /\ LET w == sim_writes[Len(sim_writes)]
           IN  /\ w.kind = "velocity"
               /\ w.env_ids = args.env_ids
               /\ \A i \in DOMAIN args.env_ids : \A c \in 1..6 :
                     InRange(Sub(w.data[i][c],
                                 default_root_state[args.env_ids[i]][7 + c]),
                             args.velocity_range, VelKeys[c])

\* C7: the pose a reset writes for each instance is its default position plus
\* its environment origin plus a jitter within position_range, and an
\* orientation within max_radian of its default orientation
C7_PoseFromDefaultsAndJitter ==
    ResetDone =>
        /\ Len(sim_writes) >= 2
        /\ LET w == sim_writes[Len(sim_writes) - 1]
           IN  /\ w.kind = "pose"
               /\ w.env_ids = args.env_ids
               /\ \A i \in DOMAIN args.env_ids :
                     /\ \A c \in 1..3 :
                           InRange(Sub(Sub(w.data[i][c],
                                           default_root_state[args.env_ids[i]][c]),
                                       env_origins[args.env_ids[i]][c]),
                                   args.position_range, RangeKeys[c])
                     /\ WithinAngle(SubSeq(w.data[i], 4, 7),
                                    SubSeq(default_root_state[args.env_ids[i]], 4, 7),
                                    args.max_radian)

\* C10: no reset call, completed or failed, changes the stored default root
\* state of any environment instance
C10_DefaultRootStateKept == default_root_state = DefaultRootState

\* C10 witness: the second reset of a run has ended, and it sampled an
\* orientation that differs from the stored default
C10_Witness ==
    /\ ResetDone
    /\ events = 2
    /\ \E i \in DOMAIN args.env_ids :
          frame.rotated_quat[i] # SubSeq(DefaultRootState[args.env_ids[i]], 4, 7)

====
